---- MODULE Spec2Model ----
(***************************************************************************)
(* Rep counter of exercise-rep-counter/frontend: the usePoseDetection hook *)
(* (per-frame detection loop, rolling average, debounced stage machine,    *)
(* session saving) together with App's exercise selection.                 *)
(*                                                                         *)
(* Conventions                                                             *)
(*  - JavaScript null / '' are the strings Null / "".                      *)
(*  - A landmark is a record; its position is given by `dir`, the value in *)
(*    degrees of Math.atan2(l.y - b.y, l.x - b.x) for the pivot b, so that *)
(*    calculateAngle is computed as the code computes it, in degrees.      *)
(*  - visibility is in tenths (0.5 is 5); hasVisibility = FALSE is a       *)
(*    landmark whose visibility is undefined.                              *)
(*  - A session record is {exercise, reps}; its date is left out.          *)
(*  - The smoothed angle is the rational Sum/Len; comparisons with a       *)
(*    threshold are made on Sum and threshold * Len.                       *)
(*  - React: setExercise re-renders App (exercise), and the effect that    *)
(*    copies the prop into exerciseRef is a step of its own                *)
(*    (SyncExerciseRef) that the frame callback may precede.               *)
(*  - A form rule's condition is given by its outcome: hits is the set of  *)
(*    the indices of the rules whose condition is true for the frame.      *)
(*  - calculateAngle, the rolling average and the form rule loop are also  *)
(*    applied on their own, on inputs and outputs kept in probe.           *)
(***************************************************************************)
EXTENDS Integers, Sequences, FiniteSets, TLC

VARIABLES
    cameraStarted,    \* useState cameraStarted
    rafPending,       \* number of runLoop callbacks requested and not yet run
    exercise,         \* App: useState exercise (the prop exerciseKey)
    exerciseRef,      \* exerciseRef.current
    stageRef,         \* stageRef.current
    repsRef,          \* repsRef.current
    holdCountRef,     \* holdCountRef.current
    angleHistoryRef,  \* angleHistoryRef.current
    reps,             \* useState reps   (display)
    stage,            \* useState stage  (display)
    angle,            \* useState angle  (display)
    formAlert,        \* useState formAlert (display)
    sessions,         \* localStorage[STORAGE_KEY], parsed
    upDownCount,      \* history: stage changes up -> down since the last reset
    cycles,           \* history: completed up -> down -> up cycles since the last reset
    downFromUp,       \* history: the current 'down' stage was entered from 'up'
    script,           \* history: how far the frames since the last reset follow each Scripts[i]
    holdQualified,    \* history: the phase conditions that every frame counted in holdCountRef met
    creditedBy,       \* history: the profiles whose frames credited the reps in repsRef
    runDown,          \* history: consecutive counted frames with a raw angle above downThreshold
    probe             \* input and output of a function applied on its own (NoProbe in the program)

vars == <<cameraStarted, rafPending, exercise, exerciseRef, stageRef, repsRef,
          holdCountRef, angleHistoryRef, reps, stage, angle, formAlert, sessions,
          upDownCount, cycles, downFromUp, script, holdQualified, creditedBy, runDown,
          probe>>

refs == <<stageRef, repsRef, holdCountRef, angleHistoryRef>>
display == <<reps, stage, angle, formAlert>>
history == <<upDownCount, cycles, downFromUp, script, holdQualified, creditedBy>>
program == <<cameraStarted, rafPending, exercise, exerciseRef, refs, display, sessions,
             history, runDown>>

----------------------------------------------------------------------------
(* Bounds of the model *)

\* the reps credited in a run, saved in sessions or still in repsRef, are capped:
\* a frame that would credit rep MaxReps + 1 is not taken
MaxReps == 1

----------------------------------------------------------------------------
(* Program constants *)

ANGLE_HISTORY_SIZE == 5

Null == "null"

EXERCISES ==
    [ bicep |->
        [ landmarks |-> <<11, 13, 15>>, upThreshold |-> 50, downThreshold |-> 150,
          holdFrames |-> 12,
          formChecks |-> << "Keep elbow close to your body",
                            "Curl all the way up - wrist above elbow" >> ],
      squat |->
        [ landmarks |-> <<23, 25, 27>>, upThreshold |-> 100, downThreshold |-> 160,
          holdFrames |-> 15,
          formChecks |-> << "Don't let knees cave inward",
                            "Keep your chest up - reduce forward lean" >> ],
      pushup |->
        [ landmarks |-> <<11, 13, 15>>, upThreshold |-> 90, downThreshold |-> 155,
          holdFrames |-> 12,
          formChecks |-> << "Keep your hips up - maintain a straight body line",
                            "Keep elbows tucked - avoid flaring out" >> ],
      shoulderpress |->
        [ landmarks |-> <<11, 13, 15>>, upThreshold |-> 160, downThreshold |-> 90,
          holdFrames |-> 12,
          formChecks |-> << "Keep wrists directly above elbows",
                            "Raise elbows to shoulder height at the bottom" >> ] ]

EXERCISE_KEYS == <<"bicep", "squat", "pushup", "shoulderpress">>

ExerciseKey == {"bicep", "squat", "pushup", "shoulderpress"}

----------------------------------------------------------------------------
(* Landmarks (NormalizedLandmark) and the inputs of a frame *)

Lm(v, d) == [present |-> TRUE, hasVisibility |-> TRUE, visibility |-> v, dir |-> d]

LmNoVisibility(d) == [present |-> TRUE, hasVisibility |-> FALSE, visibility |-> 0, dir |-> d]

LmUndefined == [present |-> FALSE, hasVisibility |-> FALSE, visibility |-> 0, dir |-> 0]

\* (l.visibility ?? 1), in tenths
VisibilityOr1(l) == IF l.hasVisibility THEN l.visibility ELSE 10

\* a && b && c && (a.visibility ?? 1) > 0.5 && (b.visibility ?? 1) > 0.5 && ...
ClearlyVisible(a, b, c) ==
    /\ a.present /\ b.present /\ c.present
    /\ VisibilityOr1(a) > 5
    /\ VisibilityOr1(b) > 5
    /\ VisibilityOr1(c) > 5

Abs(x) == IF x < 0 THEN -x ELSE x

\* mutation: no fold of an angle above 180
calculateAngleNoFold(a, b, c) == Abs(c.dir - a.dir)

\* mutation: the two atan2 values are added
calculateAngleSum(a, b, c) ==
    LET radians == c.dir + a.dir
        ang == Abs(radians)
    IN  IF ang > 180 THEN 360 - ang ELSE ang

\* calculateAngle, in degrees: a.dir and c.dir are the two atan2 values
calculateAngle(a, b, c) ==
    LET radians == c.dir - a.dir
        ang == Abs(radians)
    IN  IF ang > 180 THEN 360 - ang ELSE ang

----------------------------------------------------------------------------
(* Rolling average *)

RECURSIVE SumSeq(_)
SumSeq(s) == IF s = <<>> THEN 0 ELSE Head(s) + SumSeq(Tail(s))

\* mutation: the window is shifted one value early (>= for >)
PushAngleShiftEarly(h, rawAngle) ==
    LET pushed == Append(h, rawAngle)
    IN  IF Len(pushed) >= ANGLE_HISTORY_SIZE THEN Tail(pushed) ELSE pushed

\* mutation: nothing is ever shifted out
PushAngleNoShift(h, rawAngle) == Append(h, rawAngle)

\* mutation: once the window is full the newest value is dropped, not the oldest
PushAngleEvictsNewest(h, rawAngle) ==
    LET pushed == Append(h, rawAngle)
    IN  IF Len(pushed) > ANGLE_HISTORY_SIZE
        THEN SubSeq(pushed, 1, ANGLE_HISTORY_SIZE) ELSE pushed

\* history.push(rawAngle); if (history.length > ANGLE_HISTORY_SIZE) history.shift()
PushAngle(h, rawAngle) ==
    LET pushed == Append(h, rawAngle)
    IN  IF Len(pushed) > ANGLE_HISTORY_SIZE THEN Tail(pushed) ELSE pushed

\* Math.round(sum / len) for sum >= 0, len > 0
RoundDiv(sum, len) == (2 * sum + len) \div (2 * len)

----------------------------------------------------------------------------
(* Debounced state machine: st = [stage, reps, hold] are the three refs; the *)
(* smoothed angle is sum / len                                                *)

\* mutation: a rep is credited whenever the stage is not yet 'down'
DownBranchCreditNotDown(cfg, st) ==
    LET hold == st.hold + 1
    IN  IF hold >= cfg.holdFrames
        THEN [ stage |-> "down",
               reps  |-> IF st.stage # "down" THEN st.reps + 1 ELSE st.reps,
               hold  |-> 0 ]
        ELSE [st EXCEPT !.hold = hold]

\* mutation: every down confirmation credits a rep, whatever the stage
DownBranchCreditsEveryConfirm(cfg, st) ==
    LET hold == st.hold + 1
    IN  IF hold >= cfg.holdFrames
        THEN [ stage |-> "down",
               reps  |-> st.reps + 1,
               hold  |-> 0 ]
        ELSE [st EXCEPT !.hold = hold]

\* mutation: the down confirmation needs one frame more (> for >=)
DownBranchOneMore(cfg, st) ==
    LET hold == st.hold + 1
    IN  IF hold > cfg.holdFrames
        THEN [ stage |-> "down",
               reps  |-> IF st.stage = "up" THEN st.reps + 1 ELSE st.reps,
               hold  |-> 0 ]
        ELSE [st EXCEPT !.hold = hold]

\* the branch  smoothedAngle > cfg.downThreshold
DownBranch(cfg, st) ==
    LET hold == st.hold + 1
    IN  IF hold >= cfg.holdFrames
        THEN [ stage |-> "down",
               reps  |-> IF st.stage = "up" THEN st.reps + 1 ELSE st.reps,
               hold  |-> 0 ]
        ELSE [st EXCEPT !.hold = hold]

\* mutation: every frame of the up branch credits a rep
UpBranchCreditsEachFrame(cfg, st) ==
    LET hold == st.hold + 1
    IN  IF hold >= cfg.holdFrames
        THEN [ stage |-> "up", reps |-> st.reps + 1, hold |-> 0 ]
        ELSE [st EXCEPT !.hold = hold, !.reps = st.reps + 1]

\* mutation: the up confirmation credits the rep
UpBranchCredits(cfg, st) ==
    LET hold == st.hold + 1
    IN  IF hold >= cfg.holdFrames
        THEN [ stage |-> "up",
               reps  |-> IF st.stage = "down" THEN st.reps + 1 ELSE st.reps,
               hold  |-> 0 ]
        ELSE [st EXCEPT !.hold = hold]

\* the branch  smoothedAngle < cfg.upThreshold
UpBranch(cfg, st) ==
    LET hold == st.hold + 1
    IN  IF hold >= cfg.holdFrames
        THEN [ stage |-> "up", reps |-> st.reps, hold |-> 0 ]
        ELSE [st EXCEPT !.hold = hold]

\* mutation: the dead zone keeps the hold count
DeadZoneBranchKeepsHold(cfg, st) == st

\* mutation: the dead zone forgets the stage
DeadZoneBranchUnsets(cfg, st) == [st EXCEPT !.hold = 0, !.stage = Null]

\* the else branch
DeadZoneBranch(cfg, st) == [st EXCEPT !.hold = 0]

IsDown(cfg, sum, len) == sum > cfg.downThreshold * len

IsUp(cfg, sum, len) == sum < cfg.upThreshold * len

StateMachine(cfg, st, sum, len) ==
    IF IsDown(cfg, sum, len) THEN DownBranch(cfg, st)
    ELSE IF IsUp(cfg, sum, len) THEN UpBranch(cfg, st)
    ELSE DeadZoneBranch(cfg, st)

----------------------------------------------------------------------------
(* Form checks: hits is the set of indices i for which                       *)
(* cfg.formChecks[i].condition(lm) is true                                   *)

\* mutation: no break, the last matching rule wins
FormCheckLastMatch(cfg, hits) ==
    LET matching == {i \in DOMAIN cfg.formChecks : i \in hits}
    IN  IF matching = {} THEN ""
        ELSE cfg.formChecks[CHOOSE i \in matching : \A j \in matching : i >= j]

FormCheck(cfg, hits) ==
    LET matching == {i \in DOMAIN cfg.formChecks : i \in hits}
    IN  IF matching = {} THEN ""
        ELSE cfg.formChecks[CHOOSE i \in matching : \A j \in matching : i <= j]

----------------------------------------------------------------------------
(* Sessions *)

RECURSIVE StoredReps(_)
StoredReps(stored) ==
    IF stored = <<>> THEN 0 ELSE Head(stored).reps + StoredReps(Tail(stored))

\* mutation: no early return for 0 reps
saveSessionAlways(stored, ex, n) == Append(stored, [exercise |-> ex, reps |-> n])

\* saveSession(exercise, reps) applied to the stored list
saveSession(stored, ex, n) ==
    IF n = 0 THEN stored ELSE Append(stored, [exercise |-> ex, reps |-> n])

----------------------------------------------------------------------------
(* Frame inputs of the model *)

\* the atan2 values of a and c for the joints a profile samples: joint angles
\* 40 and 160 (shoulder, elbow, wrist), 40 and 170 = 360 - 190 (hip, knee,
\* ankle); the rolling average of the two values falls on either side of and
\* in between the thresholds of every profile
DirPairs(key) ==
    IF key = "squat"
    THEN { <<0, 40>>, <<100, -90>> }
    ELSE { <<0, 40>>, <<0, 160>> }

VisiblePoses(key) ==
    { [a |-> Lm(9, d[1]), b |-> Lm(9, 0), c |-> Lm(9, d[2])] : d \in DirPairs(key) }
    \cup { [a |-> LmNoVisibility(0), b |-> Lm(6, 0), c |-> Lm(9, 40)] }

GatedPoses ==
    { [a |-> Lm(3, 0), b |-> Lm(9, 0), c |-> Lm(9, 160)],
      [a |-> Lm(9, 0), b |-> Lm(9, 0), c |-> Lm(5, 160)],
      [a |-> Lm(9, 0), b |-> LmUndefined, c |-> Lm(9, 40)] }

Poses(key) == VisiblePoses(key) \cup GatedPoses

\* which form checks' conditions hold for the frame's landmarks
Hits == { {} }

----------------------------------------------------------------------------
(* History variables of the checks *)

Rep(n, x) == [i \in 1..n |-> x]

\* frame scripts: the raw joint angles of consecutive counted frames after a reset
Scripts ==
    << [ex |-> "bicep", angles |-> Rep(12, 160) \o Rep(12, 40) \o Rep(12, 160)],
       [ex |-> "bicep", angles |-> Rep(12, 160) \o Rep(16, 40) \o Rep(16, 160)],
       [ex |-> "bicep", angles |-> Rep(11, 160) \o Rep(1, 100) \o Rep(16, 160)] >>

OffScript == 0 - 1

\* the phase conditions a processed frame can meet
BothPhases == {"down", "up"}

\* the phase conditions the smoothed angle sum / len meets, whichever branch is taken
Qualified(cfg, sum, len) ==
    {ph \in BothPhases : IF ph = "down" THEN IsDown(cfg, sum, len)
                                         ELSE IsUp(cfg, sum, len)}

\* runDown is recorded only in the specifications that start it at 0
Untracked == 0 - 1

\* the longest run recorded: ANGLE_HISTORY_SIZE - 1 + holdFrames for the longest debounce
RunCap == ANGLE_HISTORY_SIZE - 1 + 15

\* runDown after a step that is not a counted frame above downThreshold
RunBroken == IF runDown = Untracked THEN Untracked ELSE 0

\* runDown after a counted frame above downThreshold
RunLonger ==
    IF runDown = Untracked THEN Untracked
    ELSE IF runDown < RunCap THEN runDown + 1 ELSE RunCap

\* the value of probe while no function is applied on its own
NoProbe == "none"

ScriptStart == [i \in DOMAIN Scripts |-> 0]

ScriptOff == [i \in DOMAIN Scripts |-> OffScript]

\* the frame just counted used profile ex and raw angle rawAngle
ScriptCounted(ex, rawAngle) ==
    [i \in DOMAIN Scripts |->
        IF /\ script[i] >= 0
           /\ script[i] < Len(Scripts[i].angles)
           /\ Scripts[i].ex = ex
           /\ Scripts[i].angles[script[i] + 1] = rawAngle
        THEN script[i] + 1
        ELSE OffScript]

----------------------------------------------------------------------------
(* State after construction: App and the hook are mounted, no camera yet *)

Mounted ==
    /\ cameraStarted = FALSE
    /\ rafPending = 0
    /\ exercise = "bicep"
    /\ exerciseRef = "bicep"
    /\ stageRef = Null
    /\ repsRef = 0
    /\ holdCountRef = 0
    /\ angleHistoryRef = <<>>
    /\ reps = 0
    /\ stage = Null
    /\ angle = 0
    /\ formAlert = ""
    /\ sessions = <<>>
    /\ upDownCount = 0
    /\ cycles = 0
    /\ downFromUp = FALSE
    /\ script = ScriptStart
    /\ holdQualified = BothPhases
    /\ creditedBy = {}

Init == Mounted /\ runDown = Untracked /\ probe = NoProbe

----------------------------------------------------------------------------
(* Operations *)

\* startCamera succeeds; the loop effect calls or registers runLoop
StartCamera ==
    /\ ~cameraStarted
    /\ cameraStarted' = TRUE
    /\ rafPending' = 1
    /\ UNCHANGED <<exercise, exerciseRef, refs, display, sessions, history, runDown, probe>>

\* runLoop while the landmarker or the video is not ready, or without a 2d context
RunLoopNotReady ==
    /\ cameraStarted /\ rafPending = 1
    /\ rafPending' = rafPending - 1 + 1
    /\ script' = ScriptOff
    /\ runDown' = RunBroken
    /\ UNCHANGED <<cameraStarted, exercise, exerciseRef, refs, display, sessions,
                   upDownCount, cycles, downFromUp, holdQualified, creditedBy, probe>>

\* mutation: the catch returns without requesting the next frame
RunLoopDetectThrowsStops ==
    /\ cameraStarted /\ rafPending = 1
    /\ rafPending' = rafPending - 1
    /\ script' = ScriptOff
    /\ runDown' = RunBroken
    /\ UNCHANGED <<cameraStarted, exercise, exerciseRef, refs, display, sessions,
                   upDownCount, cycles, downFromUp, holdQualified, creditedBy, probe>>

\* runLoop when detectForVideo throws: requestAnimationFrame(runLoop); return
RunLoopDetectThrows ==
    /\ cameraStarted /\ rafPending = 1
    /\ rafPending' = rafPending - 1 + 1
    /\ script' = ScriptOff
    /\ runDown' = RunBroken
    /\ UNCHANGED <<cameraStarted, exercise, exerciseRef, refs, display, sessions,
                   upDownCount, cycles, downFromUp, holdQualified, creditedBy, probe>>

\* mutation: a frame without a pose restarts the debounce
RunLoopNoPoseResetsHold ==
    /\ cameraStarted /\ rafPending = 1
    /\ rafPending' = rafPending - 1 + 1
    /\ holdCountRef' = 0
    /\ script' = ScriptOff
    /\ holdQualified' = BothPhases
    /\ runDown' = RunBroken
    /\ UNCHANGED <<cameraStarted, exercise, exerciseRef, stageRef, repsRef,
                   angleHistoryRef, display, sessions,
                   upDownCount, cycles, downFromUp, creditedBy, probe>>

\* runLoop when results.landmarks is empty
RunLoopNoPose ==
    /\ cameraStarted /\ rafPending = 1
    /\ rafPending' = rafPending - 1 + 1
    /\ script' = ScriptOff
    /\ runDown' = RunBroken
    /\ UNCHANGED <<cameraStarted, exercise, exerciseRef, refs, display, sessions,
                   upDownCount, cycles, downFromUp, holdQualified, creditedBy, probe>>

\* the counting part of runLoop for clearly visible landmarks
CountFrame(cfg, a, b, c) ==
    LET rawAngle == calculateAngle(a, b, c)
        hist == PushAngle(angleHistoryRef, rawAngle)
        sum == SumSeq(hist)
        st == [stage |-> stageRef, reps |-> repsRef, hold |-> holdCountRef]
        new == StateMachine(cfg, st, sum, Len(hist))
        credited == stageRef = "up" /\ new.stage = "down"
        returned == stageRef = "down" /\ new.stage = "up"
    IN  /\ angleHistoryRef' = hist
        /\ StoredReps(sessions) + new.reps <= MaxReps
        /\ angle' = RoundDiv(sum, Len(hist))
        /\ stageRef' = new.stage
        /\ repsRef' = new.reps
        /\ holdCountRef' = new.hold
        /\ reps' = IF new.reps # repsRef THEN new.reps ELSE reps
        /\ stage' = IF new.stage # stageRef THEN new.stage ELSE stage
        /\ upDownCount' = IF credited THEN upDownCount + 1 ELSE upDownCount
        /\ cycles' = IF returned /\ downFromUp THEN cycles + 1 ELSE cycles
        /\ downFromUp' = IF new.stage = stageRef THEN downFromUp ELSE credited
        /\ script' = ScriptCounted(exerciseRef, rawAngle)
        /\ holdQualified' = IF new.hold = 0 THEN BothPhases
                             ELSE holdQualified \cap Qualified(cfg, sum, Len(hist))
        /\ creditedBy' = IF new.reps # repsRef THEN creditedBy \cup {exerciseRef}
                          ELSE creditedBy
        /\ runDown' = IF rawAngle > cfg.downThreshold THEN RunLonger ELSE RunBroken

\* mutation: the pause keeps the hold count
PauseFrameKeepsHold ==
    /\ script' = ScriptOff
    /\ runDown' = RunBroken
    /\ UNCHANGED <<holdCountRef, stageRef, repsRef, angleHistoryRef, reps, stage, angle,
                   upDownCount, cycles, downFromUp, holdQualified, creditedBy>>

\* the else branch: landmarks not visible enough
PauseFrame ==
    /\ holdCountRef' = 0
    /\ script' = ScriptOff
    /\ holdQualified' = BothPhases
    /\ runDown' = RunBroken
    /\ UNCHANGED <<stageRef, repsRef, angleHistoryRef, reps, stage, angle,
                   upDownCount, cycles, downFromUp, creditedBy>>

\* mutation: the form checks run inside the visibility gate
RunLoopPoseFormGated(lm, hits) ==
    /\ cameraStarted /\ rafPending = 1
    /\ exerciseRef \in DOMAIN EXERCISES
    /\ LET cfg == EXERCISES[exerciseRef]
       IN  IF ClearlyVisible(lm.a, lm.b, lm.c)
           THEN formAlert' = FormCheck(cfg, hits) /\ CountFrame(cfg, lm.a, lm.b, lm.c)
           ELSE formAlert' = formAlert /\ PauseFrame
    /\ rafPending' = rafPending - 1 + 1
    /\ UNCHANGED <<cameraStarted, exercise, exerciseRef, sessions, probe>>

\* mutation: a frame with a form alert is not counted
RunLoopPoseAlertPauses(lm, hits) ==
    /\ cameraStarted /\ rafPending = 1
    /\ exerciseRef \in DOMAIN EXERCISES
    /\ LET cfg == EXERCISES[exerciseRef]
       IN  /\ formAlert' = FormCheck(cfg, hits)
           /\ IF ClearlyVisible(lm.a, lm.b, lm.c) /\ FormCheck(cfg, hits) = ""
              THEN CountFrame(cfg, lm.a, lm.b, lm.c)
              ELSE PauseFrame
    /\ rafPending' = rafPending - 1 + 1
    /\ UNCHANGED <<cameraStarted, exercise, exerciseRef, sessions, probe>>

\* runLoop with a detected pose lm, for a profile that exists
RunLoopPose(lm, hits) ==
    /\ cameraStarted /\ rafPending = 1
    /\ exerciseRef \in DOMAIN EXERCISES
    /\ LET cfg == EXERCISES[exerciseRef]
       IN  /\ formAlert' = FormCheck(cfg, hits)
           /\ IF ClearlyVisible(lm.a, lm.b, lm.c)
              THEN CountFrame(cfg, lm.a, lm.b, lm.c)
              ELSE PauseFrame
    /\ rafPending' = rafPending - 1 + 1
    /\ UNCHANGED <<cameraStarted, exercise, exerciseRef, sessions, probe>>

\* runLoop with a detected pose when EXERCISES[exerciseRef.current] is undefined:
\* cfg.landmarks throws a TypeError out of the callback, no frame is requested
RunLoopNoProfile ==
    /\ cameraStarted /\ rafPending = 1
    /\ exerciseRef \notin DOMAIN EXERCISES
    /\ rafPending' = rafPending - 1
    /\ script' = ScriptOff
    /\ runDown' = RunBroken
    /\ UNCHANGED <<cameraStarted, exercise, exerciseRef, refs, display, sessions,
                   upDownCount, cycles, downFromUp, holdQualified, creditedBy, probe>>

\* mutation: the reset publishes neither setReps(0) nor setStage(null)
resetCountersKeepsDisplay ==
    /\ sessions' = saveSession(sessions, exerciseRef, repsRef)
    /\ repsRef' = 0
    /\ stageRef' = Null
    /\ holdCountRef' = 0
    /\ angleHistoryRef' = <<>>
    /\ reps' = reps
    /\ stage' = stage
    /\ angle' = 0
    /\ formAlert' = ""
    /\ upDownCount' = 0
    /\ cycles' = 0
    /\ downFromUp' = FALSE
    /\ script' = ScriptStart
    /\ holdQualified' = BothPhases
    /\ creditedBy' = {}
    /\ runDown' = RunBroken
    /\ UNCHANGED <<cameraStarted, rafPending, exerciseRef, probe>>

\* mutation: the reset keeps repsRef
resetCountersKeepsReps ==
    /\ sessions' = saveSession(sessions, exerciseRef, repsRef)
    /\ repsRef' = repsRef
    /\ stageRef' = Null
    /\ holdCountRef' = 0
    /\ angleHistoryRef' = <<>>
    /\ reps' = 0
    /\ stage' = Null
    /\ angle' = 0
    /\ formAlert' = ""
    /\ upDownCount' = 0
    /\ cycles' = 0
    /\ downFromUp' = FALSE
    /\ script' = ScriptStart
    /\ holdQualified' = BothPhases
    /\ creditedBy' = {}
    /\ runDown' = RunBroken
    /\ UNCHANGED <<cameraStarted, rafPending, exerciseRef, probe>>

\* resetCounters
resetCounters ==
    /\ sessions' = saveSession(sessions, exerciseRef, repsRef)
    /\ repsRef' = 0
    /\ stageRef' = Null
    /\ holdCountRef' = 0
    /\ angleHistoryRef' = <<>>
    /\ reps' = 0
    /\ stage' = Null
    /\ angle' = 0
    /\ formAlert' = ""
    /\ upDownCount' = 0
    /\ cycles' = 0
    /\ downFromUp' = FALSE
    /\ script' = ScriptStart
    /\ holdQualified' = BothPhases
    /\ creditedBy' = {}
    /\ runDown' = RunBroken
    /\ UNCHANGED <<cameraStarted, rafPending, exerciseRef, probe>>

\* the "Reset & Save" button, rendered once the camera has started
ClickReset ==
    /\ cameraStarted
    /\ resetCounters
    /\ UNCHANGED exercise

\* mutation: no early return for the selected key
handleExerciseChangeAlways(key) ==
    /\ resetCounters
    /\ exercise' = key

\* handleExerciseChange(key)
handleExerciseChange(key) ==
    IF key = exercise
    THEN UNCHANGED vars
    ELSE /\ resetCounters
         /\ exercise' = key

\* an exercise button of the selector row
ClickExercise(key) == handleExerciseChange(key)

\* EXERCISE_KEYS.indexOf(key), 0-based, -1 when absent
indexOf(key) ==
    IF \E i \in DOMAIN EXERCISE_KEYS : EXERCISE_KEYS[i] = key
    THEN (CHOOSE i \in DOMAIN EXERCISE_KEYS : EXERCISE_KEYS[i] = key) - 1
    ELSE -1

\* switchExercise(dir), from a swipe
switchExercise(dir) ==
    LET idx == indexOf(exercise)
        n == Len(EXERCISE_KEYS)
        next == IF dir = "next"
                THEN EXERCISE_KEYS[((idx + 1) % n) + 1]
                ELSE EXERCISE_KEYS[((idx - 1 + n) % n) + 1]
    IN  handleExerciseChange(next)

\* useEffect(() => { exerciseRef.current = exerciseKey }, [exerciseKey])
SyncExerciseRef ==
    /\ exerciseRef # exercise
    /\ exerciseRef' = exercise
    /\ runDown' = RunBroken
    /\ UNCHANGED <<cameraStarted, rafPending, exercise, refs, display, sessions, history,
                   probe>>

----------------------------------------------------------------------------
(* Specification: well-typed callers *)

Next ==
    \/ StartCamera
    \/ RunLoopNotReady
    \/ RunLoopDetectThrows
    \/ RunLoopNoPose
    \/ \E lm \in Poses(exerciseRef), hits \in Hits : RunLoopPose(lm, hits)
    \/ ClickReset
    \/ \E key \in ExerciseKey : ClickExercise(key)
    \/ \E dir \in {"next", "prev"} : switchExercise(dir)
    \/ SyncExerciseRef

Spec == Init /\ [][Next]_vars

(* Specification: callers that bypass the ExerciseKey type *)

\* an identifier that is not a key of EXERCISES
UnknownKeys == {"plank"}

NextUntyped ==
    \/ Next
    \/ \E key \in UnknownKeys : ClickExercise(key)
    \/ RunLoopNoProfile

SpecUntyped == Init /\ [][NextUntyped]_vars

----------------------------------------------------------------------------
(* Specification: runs of frames above downThreshold are counted in runDown *)

InitRun == Mounted /\ runDown = 0 /\ probe = NoProbe

\* the exercises selected in this specification: one of the profiles with
\* holdFrames 12 and thresholds in the usual order, the one with holdFrames 15,
\* and the one whose downThreshold is below its upThreshold
RunKeys == {"bicep", "squat", "shoulderpress"}

NextRun ==
    \/ StartCamera
    \/ RunLoopNoPose
    \/ \E lm \in Poses(exerciseRef), hits \in Hits : RunLoopPose(lm, hits)
    \/ ClickReset
    \/ \E key \in RunKeys : ClickExercise(key)
    \/ SyncExerciseRef

SpecRun == InitRun /\ [][NextRun]_vars

----------------------------------------------------------------------------
(* Specification: frames whose other joints trigger form rules *)

\* one pose per joint angle, and one that the visibility gate stops
FormPoses(key) ==
    { [a |-> Lm(9, d[1]), b |-> Lm(9, 0), c |-> Lm(9, d[2])] : d \in DirPairs(key) }
    \cup { [a |-> Lm(3, 0), b |-> Lm(9, 0), c |-> Lm(9, 160)] }

\* every outcome of the two conditions of a profile
FormHits == SUBSET {1, 2}

\* the outcomes a frame can have: the first condition of squat is
\* frontalAngle(hip, knee, ankle) < 155 on the three sampled joints; the other
\* conditions read joints or coordinates the joint angle leaves free
FormHitsFor(key, lm) ==
    IF key = "squat"
    THEN { h \in FormHits : (1 \in h) <=> (calculateAngle(lm.a, lm.b, lm.c) < 155) }
    ELSE FormHits

\* the exercises selected in this specification
FormKeys == {"bicep", "squat"}

NextForm ==
    \/ StartCamera
    \/ RunLoopDetectThrows
    \/ RunLoopNoPose
    \/ \E lm \in FormPoses(exerciseRef) :
          \E hits \in FormHitsFor(exerciseRef, lm) : RunLoopPose(lm, hits)
    \/ ClickReset
    \/ \E key \in FormKeys : ClickExercise(key)
    \/ SyncExerciseRef

SpecForm == Init /\ [][NextForm]_vars

(* Specification: the form rule loop applied on its own *)

MaxRules == 3

Messages == {"m1", "m2"}

\* the message lists of up to MaxRules rules
RECURSIVE RuleLists(_)
RuleLists(n) ==
    IF n = 0 THEN { <<>> }
    ELSE RuleLists(n - 1)
         \cup { Append(r, m) : r \in {q \in RuleLists(n - 1) : Len(q) = n - 1}, m \in Messages }

FormInputs ==
    { [rules |-> r, hits |-> h, done |-> FALSE, out |-> ""] :
        r \in RuleLists(MaxRules), h \in SUBSET (1..MaxRules) }

InitFormRules ==
    /\ Mounted /\ runDown = Untracked
    /\ probe \in {in \in FormInputs : in.hits \subseteq DOMAIN in.rules}

\* the loop over cfg.formChecks for one frame
ApplyFormCheck ==
    /\ ~probe.done
    /\ probe' = [probe EXCEPT !.done = TRUE,
                               !.out = FormCheck([formChecks |-> probe.rules], probe.hits)]
    /\ UNCHANGED program

NextFormRules == ApplyFormCheck

SpecFormRules == InitFormRules /\ [][NextFormRules]_vars

(* Specification: a bicep curl that stops half way (joint angles 160 and 100) *)

InterruptPoses ==
    { [a |-> Lm(9, 0), b |-> Lm(9, 0), c |-> Lm(9, d)] : d \in {160, 100} }
    \cup { [a |-> Lm(3, 0), b |-> Lm(9, 0), c |-> Lm(9, 160)] }

NextInterrupt ==
    \/ StartCamera
    \/ RunLoopNoPose
    \/ \E lm \in InterruptPoses, hits \in Hits : RunLoopPose(lm, hits)
    \/ ClickReset

SpecInterrupt == Init /\ [][NextInterrupt]_vars

(* Specification: the rolling average applied on its own *)

MaxPushes == 6

SmootherAngles == {10, 20, 30, 40, 50, 60}

\* pushes: every raw angle pushed since the window was cleared; sum / len: the
\* smoothed angle of the last push
SmootherCleared == [pushes |-> <<>>, window |-> <<>>, sum |-> 0, len |-> 0]

InitSmoother == Mounted /\ runDown = Untracked /\ probe = SmootherCleared

\* history.push(rawAngle), the shift and the mean of a counted frame
SmootherPush(rawAngle) ==
    /\ Len(probe.pushes) < MaxPushes
    /\ LET hist == PushAngle(probe.window, rawAngle)
       IN  probe' = [pushes |-> Append(probe.pushes, rawAngle), window |-> hist,
                     sum |-> SumSeq(hist), len |-> Len(hist)]
    /\ UNCHANGED program

\* angleHistoryRef.current = [] of resetCounters
SmootherClear ==
    /\ probe' = SmootherCleared
    /\ UNCHANGED program

NextSmoother ==
    \/ \E rawAngle \in SmootherAngles : SmootherPush(rawAngle)
    \/ SmootherClear

SpecSmoother == InitSmoother /\ [][NextSmoother]_vars

(* Specification: calculateAngle applied on its own to points of a grid *)

GridMax == 2

\* points <<x, y>>
Points == (0..GridMax) \X (0..GridMax)

\* atan(p / q) in degrees, rounded to the degree, for 0 <= p and 0 < q
ArcTanDeg(p, q) ==
    CASE p = 0 -> 0
      [] p = q -> 45
      [] 2 * p = q -> 27
      [] p = 2 * q -> 63
      [] 3 * p = q -> 18
      [] p = 3 * q -> 72
      [] 3 * p = 2 * q -> 34
      [] 2 * p = 3 * q -> 56

\* Math.atan2(dy, dx) in degrees, rounded to the degree
atan2(dy, dx) ==
    IF dx > 0 THEN (IF dy >= 0 THEN ArcTanDeg(dy, dx) ELSE 0 - ArcTanDeg(0 - dy, dx))
    ELSE IF dx < 0 THEN (IF dy >= 0 THEN 180 - ArcTanDeg(dy, 0 - dx)
                                    ELSE ArcTanDeg(0 - dy, 0 - dx) - 180)
    ELSE IF dy > 0 THEN 90
    ELSE IF dy < 0 THEN 0 - 90
    ELSE 0

\* the landmark at point p as calculateAngle sees it for the pivot b
AtPivot(p, b) == Lm(10, atan2(p[2] - b[2], p[1] - b[1]))

AngleInputs ==
    { [A |-> A, B |-> B, C |-> C, done |-> FALSE, out |-> 0] :
        A \in Points, B \in Points, C \in Points }

InitAngle == Mounted /\ runDown = Untracked /\ probe \in AngleInputs

\* calculateAngle(a, b, c)
ApplyCalculateAngle ==
    /\ ~probe.done
    /\ probe' = [probe EXCEPT
                    !.done = TRUE,
                    !.out = calculateAngle(AtPivot(probe.A, probe.B),
                                           AtPivot(probe.B, probe.B),
                                           AtPivot(probe.C, probe.B))]
    /\ UNCHANGED program

NextAngle == ApplyCalculateAngle

SpecAngle == InitAngle /\ [][NextAngle]_vars

----------------------------------------------------------------------------
(* Vocabulary of the properties *)

\* the profile the loop reads
Cfg == EXERCISES[exerciseRef]

\* every sampled joint is there with confidence above 0.5
JointsPass(lm) ==
    \A l \in {lm.a, lm.b, lm.c} : l.present /\ (l.hasVisibility => l.visibility > 5)

\* a sampled joint is missing or has confidence 0.5 or less
JointFails(lm) ==
    \E l \in {lm.a, lm.b, lm.c} : ~l.present \/ (l.hasVisibility /\ l.visibility <= 5)

\* the window and the smoothed angle (SmoothedSum / SmoothedLen) of a processed frame
WindowAfter(lm) == PushAngle(angleHistoryRef, calculateAngle(lm.a, lm.b, lm.c))

SmoothedSum(lm) == SumSeq(WindowAfter(lm))

SmoothedLen(lm) == Len(WindowAfter(lm))

Min(x, y) == IF x < y THEN x ELSE y

Max(x, y) == IF x < y THEN y ELSE x

\* the counter a frame with the sampled joints lm leaves, from the counter before
FrameCounter(lm) ==
    IF ClearlyVisible(lm.a, lm.b, lm.c)
    THEN LET st == [stage |-> stageRef, reps |-> repsRef, hold |-> holdCountRef]
             new == StateMachine(Cfg, st, SmoothedSum(lm), SmoothedLen(lm))
         IN  <<new.stage, new.reps, new.hold, WindowAfter(lm)>>
    ELSE <<stageRef, repsRef, 0, angleHistoryRef>>

\* the state of a fresh counter
Pristine(st, rp, hold, window) ==
    st = Null /\ rp = 0 /\ hold = 0 /\ window = <<>>

----------------------------------------------------------------------------
(* C1 - C10 *)

\* C1: a processed frame in which holdCount reaches holdFrames with the smoothed
\* angle above downThreshold adds exactly 1 to repCount when stage was 'up'
\* and 0 when stage was 'down' or unset, and leaves stage 'down'; so a second
\* down confirmation without an up confirmation in between, which finds stage
\* 'down', credits nothing.
C1_DownConfirmationCredit ==
    [][ \A lm \in Poses(exerciseRef), hits \in Hits :
            ( /\ holdCountRef + 1 >= Cfg.holdFrames
              /\ JointsPass(lm)
              /\ SmoothedSum(lm) > Cfg.downThreshold * SmoothedLen(lm)
              /\ RunLoopPose(lm, hits) )
            => /\ repsRef' = repsRef + (IF stageRef = "up" THEN 1 ELSE 0)
               /\ stageRef' = "down"
               /\ holdCountRef' = 0 ]_vars

\* a down confirmation has credited a rep, and a later one found stage 'down'
C1_Witness ==
    /\ repsRef = 1 /\ stageRef = "down" /\ holdCountRef = 0
    /\ upDownCount = 1
    /\ Len(angleHistoryRef) = ANGLE_HISTORY_SIZE
    /\ SumSeq(angleHistoryRef) > Cfg.downThreshold * ANGLE_HISTORY_SIZE

\* C2 as stated: repCount equals the number of completed up -> down -> up
\* stage cycles since the last reset.
C2_RepsEqualCompletedCycles == repsRef = cycles

\* C2 amended: repCount equals the number of up -> down stage changes since the
\* last reset; it is the number of completed up -> down -> up cycles plus one
\* while stage is a 'down' entered from 'up', and equal to it otherwise.
C2_RepsEqualUpDownChanges ==
    /\ repsRef = upDownCount
    /\ repsRef = cycles + (IF stageRef = "down" /\ downFromUp THEN 1 ELSE 0)

\* one cycle up -> down -> up has completed
C2_Witness == cycles = 1 /\ stageRef = "up" /\ repsRef = 1

\* C3 as stated (bicep: 50 / 150 / 12, from the initial state): 12 frames at
\* 160 give down and 0 reps, 12 more at 40 give up and 0 reps, 12 more at 160
\* give down and 1 rep.
C3_Example12 ==
    /\ script[1] = 12 => (stageRef = "down" /\ repsRef = 0)
    /\ script[1] = 24 => (stageRef = "up" /\ repsRef = 0)
    /\ script[1] = 36 => (stageRef = "down" /\ repsRef = 1)

\* C3 amended: 12 frames at 160 give down and 0 reps, then 16 frames at 40
\* (4 for the rolling average to fall below upThreshold, then 12) give up and 0
\* reps, then 16 frames at 160 give down and 1 rep.
C3_Example16 ==
    /\ script[2] = 12 => (stageRef = "down" /\ repsRef = 0 /\ holdCountRef = 0)
    /\ script[2] = 12 + 16 => (stageRef = "up" /\ repsRef = 0 /\ holdCountRef = 0)
    /\ script[2] = 12 + 16 + 16 => (stageRef = "down" /\ repsRef = 1 /\ holdCountRef = 0)
    /\ \A n \in 0..(12 + 16 + 16) :
          script[2] = n =>
             /\ (n < 12 => stageRef = Null)
             /\ (n >= 12 /\ n < 12 + 16 => stageRef = "down")
             /\ (n >= 12 + 16 /\ n < 12 + 16 + 16 => stageRef = "up")

\* the whole script of 44 frames has run
C3_Witness == script[2] = Len(Scripts[2].angles) /\ repsRef = 1 /\ exerciseRef = "bicep"

\* C4: a frame in which a sampled joint is missing or has confidence <= 0.5
\* sets holdCount to 0 and leaves stage, repCount and the smoothing window
\* unchanged, whatever the state before.
C4_GatedFrame ==
    [][ \A lm \in Poses(exerciseRef), hits \in Hits :
            (JointFails(lm) /\ RunLoopPose(lm, hits))
            => /\ holdCountRef' = 0
               /\ UNCHANGED <<stageRef, repsRef, angleHistoryRef>> ]_vars

\* a gated frame in mid-debounce: five frames above downThreshold are in the
\* window, no stage is confirmed, and the hold count is back at 0
C4_Witness ==
    /\ stageRef = Null /\ holdCountRef = 0
    /\ Len(angleHistoryRef) = ANGLE_HISTORY_SIZE
    /\ \A i \in DOMAIN angleHistoryRef : angleHistoryRef[i] > Cfg.downThreshold
    /\ script = ScriptOff

\* C5: for every profile, a processed frame whose smoothed angle lies strictly
\* between the two thresholds sets holdCount to 0 and changes neither stage
\* nor repCount.
C5_DeadZone ==
    [][ \A lm \in Poses(exerciseRef), hits \in Hits :
            ( /\ JointsPass(lm)
              /\ SmoothedSum(lm) > Min(Cfg.upThreshold, Cfg.downThreshold) * SmoothedLen(lm)
              /\ SmoothedSum(lm) < Max(Cfg.upThreshold, Cfg.downThreshold) * SmoothedLen(lm)
              /\ RunLoopPose(lm, hits) )
            => /\ holdCountRef' = 0
               /\ UNCHANGED <<stageRef, repsRef>> ]_vars

C7_SwitchAtomic ==
    exerciseRef # exercise
        => Pristine(stageRef, repsRef, holdCountRef, angleHistoryRef)

\* C8: selecting the exercise that is already selected changes nothing and
\* saves nothing.
C8_SameExerciseNoOp ==
    [][ handleExerciseChange(exercise)
            => UNCHANGED <<stageRef, repsRef, holdCountRef, angleHistoryRef,
                           exercise, exerciseRef, sessions, reps, stage, angle,
                           formAlert>> ]_vars

\* a running count that a reset would lose
C8_Witness ==
    /\ exercise = exerciseRef
    /\ repsRef = 1 /\ stageRef = "up" /\ holdCountRef > 0
    /\ sessions = <<>>

\* C9: a reset or an exercise switch appends a record if and only if
\* repCount > 0; with repCount = 0 the stored list is unchanged.
C9_SaveIffReps ==
    [][ (ClickReset \/ \E key \in ExerciseKey : key # exercise /\ handleExerciseChange(key))
            => /\ repsRef > 0 => /\ Len(sessions') = Len(sessions) + 1
                                 /\ sessions'[Len(sessions')].reps = repsRef
                                 /\ SubSeq(sessions', 1, Len(sessions)) = sessions
               /\ repsRef = 0 => sessions' = sessions ]_vars

\* a record was saved, and a later reset at 0 reps has left the list alone
C9_Witness ==
    /\ Len(sessions) = 1 /\ sessions[1].reps = 1
    /\ Pristine(stageRef, repsRef, holdCountRef, angleHistoryRef)
    /\ exercise # sessions[1].exercise
    /\ exercise = exerciseRef

----------------------------------------------------------------------------
(* C11 - C20 *)

\* C11: for an ordered list of rules the evaluator returns the message of the
\* lowest-indexed rule whose predicate is true, also when later rules are true,
\* and the empty value when no predicate is true or the list is empty.
C11_FirstMatchWins ==
    probe.done =>
        /\ probe.hits = {} => probe.out = ""
        /\ \A i \in probe.hits :
              (\A j \in probe.hits : i <= j) => probe.out = probe.rules[i]

\* rule 1 is false, rules 2 and 3 are true with different messages
C11_Witness ==
    /\ probe.done
    /\ probe.hits = {2, 3}
    /\ probe.rules[2] # probe.rules[3]
    /\ probe.out = probe.rules[2]

\* C12: every frame with a pose publishes the evaluator's result for that frame,
\* also when the sampled joints fail the visibility gate and the frame is not
\* counted.
C12_FormEveryFrame ==
    [][ \A lm \in FormPoses(exerciseRef) :
            \A hits \in FormHitsFor(exerciseRef, lm) :
                RunLoopPose(lm, hits) => formAlert' = FormCheck(Cfg, hits) ]_vars

\* a gated frame in mid-debounce has published the alert of the second rule
C12_Witness ==
    /\ formAlert = Cfg.formChecks[2]
    /\ stageRef = Null /\ holdCountRef = 0
    /\ Len(angleHistoryRef) = ANGLE_HISTORY_SIZE
    /\ \A i \in DOMAIN angleHistoryRef : angleHistoryRef[i] > Cfg.downThreshold

\* C13: the counter after every step is determined by the counter before, the
\* operation and the three sampled joints alone: whatever the outcomes of the
\* form rules of a frame (and the alert shown before it), stage, repCount,
\* holdCount and the window after it are the same, so two runs that agree on
\* the sampled joints and the selections agree on them after every frame.
C13_FormDoesNotInterfere ==
    [][ /\ \A lm \in FormPoses(exerciseRef) :
              \A hits \in FormHitsFor(exerciseRef, lm) :
                  RunLoopPose(lm, hits) => refs' = FrameCounter(lm)
        /\ \/ \E lm \in FormPoses(exerciseRef) : refs' = FrameCounter(lm)
           \/ Pristine(stageRef', repsRef', holdCountRef', angleHistoryRef')
           \/ refs' = refs ]_vars

\* a rep was counted through frames that raised alerts
C13_Witness ==
    /\ repsRef = 1 /\ stageRef = "down"
    /\ formAlert # ""

\* C14: the smoothed angle of a push is the arithmetic mean of the last
\* min(k, 5) raw angles pushed since the last clear, k being the number of
\* pushes since the clear; pushing 10, 20, 30, 40, 50, 60 yields 40 on the
\* sixth push.
C14_MeanOfLastFive ==
    LET k == Len(probe.pushes)
        n == Min(k, 5)
    IN  /\ k > 0 => /\ probe.len = n
                    /\ probe.sum = SumSeq(SubSeq(probe.pushes, k - n + 1, k))
        /\ probe.pushes = <<10, 20, 30, 40, 50, 60>> => probe.sum = 40 * probe.len

\* the six pushes of the example
C14_Witness ==
    /\ probe.pushes = <<10, 20, 30, 40, 50, 60>>
    /\ probe.window = <<20, 30, 40, 50, 60>>
    /\ probe.sum = 200 /\ probe.len = 5

\* C15: for all points A, B, C the computed joint angle lies in [0, 180].
C15_AngleRange == probe.done => (probe.out >= 0 /\ probe.out <= 180)

\* the two atan2 values are more than 180 apart and the angle was folded
C15_Witness ==
    /\ probe.done
    /\ atan2(probe.C[2] - probe.B[2], probe.C[1] - probe.B[1])
          - atan2(probe.A[2] - probe.B[2], probe.A[1] - probe.B[1]) = 270
    /\ probe.out = 90

\* C16: for all points A, B, C with A = C the computed joint angle is 0.
C16_SamePointZero == (probe.done /\ probe.A = probe.C) => probe.out = 0

\* A = C away from the pivot, on a diagonal
C16_Witness ==
    /\ probe.done
    /\ probe.A = probe.C
    /\ probe.A = <<2, 2>> /\ probe.B = <<1, 1>>
    /\ probe.out = 0

\* C17: stage changes only through the debounce gate or a reset: a step that
\* changes stage is a processed frame in which holdCount reaches holdFrames
\* (the new stage is 'up' or 'down') or a reset (the new stage is unset); no
\* frame sets stage back to unset.
C17_StageChangesGated ==
    [][ stageRef' # stageRef =>
          \/ /\ stageRef' = Null
             /\ \/ ClickReset
                \/ \E key \in ExerciseKey : key # exercise /\ handleExerciseChange(key)
          \/ /\ stageRef' \in {"up", "down"}
             /\ holdCountRef + 1 >= Cfg.holdFrames
             /\ holdCountRef' = 0
             /\ \E lm \in Poses(exerciseRef), hits \in Hits :
                    JointsPass(lm) /\ RunLoopPose(lm, hits) ]_vars

\* the gate has just confirmed 'up', and the display follows
C17_Witness ==
    /\ stageRef = "up" /\ stage = "up" /\ holdCountRef = 0
    /\ downFromUp = FALSE /\ repsRef = 0
    /\ Len(angleHistoryRef) = ANGLE_HISTORY_SIZE
    /\ SumSeq(angleHistoryRef) < Cfg.upThreshold * ANGLE_HISTORY_SIZE

\* C18: a stage change to 'down' is confirmed only after holdFrames consecutive
\* processed frames that each have the smoothed angle above downThreshold, and
\* a stage change to 'up' only after holdFrames consecutive processed frames
\* that each have it below upThreshold: every frame counted in holdCount, and
\* the confirming frame, met the condition of the confirmed phase.
C18_ConsecutiveQualifying ==
    [][ \A lm \in Poses(exerciseRef), hits \in Hits :
            ( /\ stageRef' # stageRef
              /\ stageRef' \in BothPhases
              /\ RunLoopPose(lm, hits) )
            => /\ holdCountRef + 1 >= Cfg.holdFrames
               /\ stageRef' \in holdQualified
               /\ stageRef' \in Qualified(Cfg, SmoothedSum(lm), SmoothedLen(lm)) ]_vars

\* C19: debounce credit does not survive an interruption. A processed frame
\* that meets neither phase condition, after fewer than holdFrames frames above
\* downThreshold, leaves stage unchanged and holdCount 0; the change to 'down'
\* is then confirmed only after a fresh run of holdFrames frames above
\* downThreshold. For bicep (holdFrames 12): after 11 frames at 160 and one at
\* 100 stage is unset and holdCount 0, and of the frames at 160 that follow the
\* first four still have the 100 in the window (smoothed angle 148), the next
\* twelve are the fresh run, the last of which confirms 'down'.
C19_InterruptedDebounce ==
    /\ [](/\ script[3] = 11 => (stageRef = Null /\ holdCountRef = 11)
          /\ script[3] = 12 => (stageRef = Null /\ holdCountRef = 0)
          /\ \A n \in 13..27 :
                script[3] = n =>
                    /\ stageRef = Null
                    /\ holdCountRef = (IF n > 16 THEN n - 16 ELSE 0)
          /\ script[3] = 28 => (stageRef = "down" /\ holdCountRef = 0 /\ repsRef = 0))
    /\ [][ \A lm \in InterruptPoses, hits \in Hits :
              ( /\ holdCountRef > 0 /\ holdCountRef < Cfg.holdFrames
                /\ holdQualified = {"down"}
                /\ JointsPass(lm)
                /\ Qualified(Cfg, SmoothedSum(lm), SmoothedLen(lm)) = {}
                /\ RunLoopPose(lm, hits) )
              => /\ stageRef' = stageRef
                 /\ holdCountRef' = 0 ]_vars

\* the script has run to the confirmation
C19_Witness ==
    /\ script[3] = Len(Scripts[3].angles)
    /\ stageRef = "down" /\ stage = "down"
    /\ angleHistoryRef = <<160, 160, 160, 160, 160>>

\* C20: for every profile the two thresholds are independent crossing levels:
\* holdFrames consecutive processed frames with the smoothed angle below
\* upThreshold end with stage 'up', and holdFrames consecutive processed frames
\* with it above downThreshold end with stage 'down'.
C20_IndependentLevels ==
    [][ \A lm \in Poses(exerciseRef), hits \in Hits, ph \in BothPhases :
            ( /\ holdCountRef + 1 >= Cfg.holdFrames
              /\ ph \in holdQualified
              /\ JointsPass(lm)
              /\ ph \in Qualified(Cfg, SmoothedSum(lm), SmoothedLen(lm))
              /\ RunLoopPose(lm, hits) )
            => stageRef' = ph ]_vars

----------------------------------------------------------------------------
(* C21 - C30 *)

\* C21: no rep is credited in the up branch: a processed frame whose smoothed
\* angle is not above downThreshold and is below upThreshold, the frame that
\* changes stage from 'down' to 'up' included, leaves repCount unchanged.
C21_NoRepOnUp ==
    [][ \/ repsRef' = repsRef
        \/ \A lm \in Poses(exerciseRef), hits \in Hits :
              ~( /\ JointsPass(lm)
                 /\ ~IsDown(Cfg, SmoothedSum(lm), SmoothedLen(lm))
                 /\ IsUp(Cfg, SmoothedSum(lm), SmoothedLen(lm))
                 /\ RunLoopPose(lm, hits) ) ]_vars

\* 'up' has just been confirmed after a 'down' that had credited a rep
C21_Witness ==
    /\ stageRef = "up" /\ holdCountRef = 0
    /\ repsRef = 1 /\ upDownCount = 1 /\ cycles = 1
    /\ SumSeq(angleHistoryRef) < Cfg.upThreshold * Len(angleHistoryRef)

\* the newest n values of s, oldest first
Newest(s, n) == SubSeq(s, Max(1, Len(s) - n + 1), Len(s))

\* C22: the window holds at most ANGLE_HISTORY_SIZE values, and they are the raw
\* angles of the most recent counted (visibility-passing) frames since the last
\* reset, oldest first: a counted frame appends its raw angle and evicts the
\* oldest value of a full window, a reset empties the window, and no other frame
\* or step changes it.
C22_WindowFifo ==
    /\ [] ( /\ Len(angleHistoryRef) <= ANGLE_HISTORY_SIZE
            /\ \A i \in DOMAIN Scripts :
                  script[i] >= 0 =>
                      angleHistoryRef =
                          Newest(SubSeq(Scripts[i].angles, 1, script[i]),
                                 ANGLE_HISTORY_SIZE) )
    /\ [][ /\ \A lm \in Poses(exerciseRef), hits \in Hits :
                \/ angleHistoryRef' =
                        IF JointsPass(lm)
                        THEN Newest(Append(angleHistoryRef,
                                           calculateAngle(lm.a, lm.b, lm.c)),
                                    ANGLE_HISTORY_SIZE)
                        ELSE angleHistoryRef
                \/ ~RunLoopPose(lm, hits)
           /\ \/ angleHistoryRef' = angleHistoryRef
              \/ ~( \/ RunLoopNotReady \/ RunLoopDetectThrows \/ RunLoopNoPose
                    \/ SyncExerciseRef \/ StartCamera )
           /\ angleHistoryRef' = <<>> \/ (exercise' = exercise /\ ~ClickReset)
         ]_vars

\* 14 counted frames after a reset: the two newest values are the 40s
C22_Witness ==
    /\ script[2] = 14
    /\ Len(angleHistoryRef) = ANGLE_HISTORY_SIZE
    /\ angleHistoryRef = <<160, 160, 160, 40, 40>>

\* C23: a frame whose detectForVideo call throws leaves stage, repCount,
\* holdCount, the window and the form alert as they were, and schedules exactly
\* one next frame.
C23_DetectThrows ==
    [][ RunLoopDetectThrows
            => /\ UNCHANGED <<stageRef, repsRef, holdCountRef, angleHistoryRef,
                              formAlert>>
               /\ rafPending' = 1 ]_vars

\* the loop is running in mid-debounce with a form alert shown and stage 'down':
\* a throwing frame has this state to preserve
C23_Witness ==
    /\ cameraStarted /\ rafPending = 1
    /\ script = ScriptOff
    /\ stageRef = "down" /\ repsRef = 1
    /\ holdCountRef > 0
    /\ Len(angleHistoryRef) = ANGLE_HISTORY_SIZE
    /\ formAlert # ""

C25_RepsCountUpDownFrames ==
    /\ [] (repsRef = upDownCount /\ repsRef >= 0)
    /\ [][ /\ repsRef' <= repsRef + 1
           /\ repsRef' < repsRef
                => /\ repsRef' = 0
                   /\ ClickReset \/ exercise' # exercise
           /\ repsRef' > repsRef
                => stageRef = "up" /\ stageRef' = "down" ]_vars

\* a rep has been credited by an up -> down change and the counter is in
\* mid-debounce, no cycle completed yet
C25_Witness ==
    /\ repsRef = 1 /\ upDownCount = 1
    /\ stageRef = "down" /\ cycles = 0
    /\ holdCountRef > 0

\* C26: bounded response. After ANGLE_HISTORY_SIZE - 1 + holdFrames consecutive
\* counted (visibility-passing) frames whose raw angle is above downThreshold,
\* with no reset and no other step in between, from whatever state the run
\* started in, stage is 'down'.
C26_DownWithinBound ==
    runDown >= ANGLE_HISTORY_SIZE - 1 + Cfg.holdFrames => stageRef = "down"

\* a run of exactly ANGLE_HISTORY_SIZE - 1 + holdFrames such frames whose last
\* frame confirmed 'down' and credited the rep: the run started with stage 'up'
\* and smaller angles in the window
C26_Witness ==
    /\ runDown = ANGLE_HISTORY_SIZE - 1 + Cfg.holdFrames
    /\ stageRef = "down" /\ holdCountRef = 0
    /\ repsRef = 1 /\ downFromUp
    /\ holdQualified = BothPhases

\* C27: a frame in which no pose is detected leaves stage, repCount, holdCount,
\* the window and the form alert as they were; holdCount is not reset.
C27_NoPoseFrame ==
    [][ RunLoopNoPose
            => /\ holdCountRef' = holdCountRef
               /\ UNCHANGED <<stageRef, repsRef, angleHistoryRef, formAlert>> ]_vars

\* the loop is running in mid-debounce towards 'down' with a form alert shown
\* and stage 'up': a frame without a pose has this state to preserve
C27_Witness ==
    /\ cameraStarted /\ rafPending = 1
    /\ script = ScriptOff
    /\ stageRef = "up"
    /\ holdCountRef > 0
    /\ holdQualified = {"down"}
    /\ Len(angleHistoryRef) = ANGLE_HISTORY_SIZE
    /\ formAlert # ""

\* C28: reset is idempotent. Every reset leaves the counter unset, 0, 0 with an
\* empty window and an empty form alert and emits at most one record; a reset
\* that follows a reset with no frame in between emits no record and changes
\* none of these, so two resets in a row emit at most one record and leave the
\* state of a single reset.
C28_ResetIdempotent ==
    [][ ClickReset
            => /\ Pristine(stageRef', repsRef', holdCountRef', angleHistoryRef')
               /\ formAlert' = ""
               /\ Len(sessions') <= Len(sessions) + 1
               /\ script = ScriptStart
                    => /\ sessions' = sessions
                       /\ UNCHANGED <<stageRef, repsRef, holdCountRef,
                                      angleHistoryRef, formAlert>> ]_vars

\* a reset has emitted the one record, and no frame has been processed since
C28_Witness ==
    /\ cameraStarted
    /\ script = ScriptStart
    /\ Len(sessions) = 1 /\ sessions[1].reps = 1
    /\ exercise = sessions[1].exercise
    /\ Pristine(stageRef, repsRef, holdCountRef, angleHistoryRef)
    /\ formAlert = ""

C30_DisplayTracksRefs ==
    /\ reps = repsRef
    /\ stage = stageRef

\* a credited rep and the confirmed stage are on display while the next
\* debounce is under way
C30_Witness ==
    /\ reps = 1 /\ repsRef = 1
    /\ stage = "down" /\ stageRef = "down"
    /\ holdCountRef > 0
    /\ sessions = <<>>

============================================================================
